---- MODULE Spec2Model ----
(***************************************************************************)
(* State-machine model of trunkindexer/kaldi.cc: the Python entry point    *)
(* decode(), the function basic() it calls, the log handler trap() and the *)
(* process-wide buffer errlog.                                             *)
(*                                                                         *)
(* A std::string is a sequence of one-character strings.  The Kaldi and    *)
(* OpenFst calls made by basic() are the environment: each may hand        *)
(* messages to the installed log handler and may throw; a failure of the   *)
(* engine is modelled as it surfaces in this file, as a std::exception     *)
(* reaching the catch clause of decode().                                  *)
(***************************************************************************)
EXTENDS Integers, Sequences, FiniteSets, TLC

\* ------------------------------------------------------------------ bounds
MaxCalls == 2      \* decode calls issued by the host, one after the other
MaxLog == 1        \* warnings and notes the engine reports per call
MaxSamples == 2    \* samples in the wave file (data.Dim())
MaxWords == 2      \* symbols on the best path
NumIds == 3        \* symbol ids the search graph can emit
NumThreads == 2    \* host threads that call decode

\* --------------------------------------------------------------- constants
\* std::numeric_limits<int32>::max()
chunk_length == 2147483647

VARIABLES
    pc,             \* control point of the decode call ("idle": none entered yet)
    calls,          \* decode calls entered so far
    logHandler,     \* the engine's process-wide log handler
    errlog,         \* std::string errlog
    envelope,       \* severity of the last message handed to trap in this call
    message,        \* text of the last message handed to trap in this call
    nlog,           \* messages handed to the log handler during this call
    callLog,        \* what trap retained during this call (history)
    vocab,          \* contents of words.txt: id -> display string, <<>> if absent
    decode_fst,     \* fst::Fst<fst::StdArc> *decode_fst
    word_syms,      \* fst::SymbolTable *word_syms
    decoder,        \* feature_pipeline and decoder (stack objects of basic)
    dataDim,        \* data.Dim()
    samp_offset,    \* int32 samp_offset
    chunk_len,      \* int32 chunk_length, 0 before it is assigned
    trace,          \* engine calls made by the feed loop and after it (history)
    words,          \* std::vector<int32> words
    i,              \* size_t i of the extraction loop
    result,         \* std::string result of basic
    decode_result,  \* std::string result of decode
    what,           \* e.what() of the exception in flight
    cerr,           \* text written to std::cerr during this call
    ret,            \* the PyObject* returned by decode
    pyErr,          \* the Python error indicator
    gil,            \* host thread holding the interpreter lock, 0 if none
    tpc,            \* control point of each host thread (SpecThreads)
    files,          \* what the model directory and the wave file hold (SpecRepeat)
    texts           \* texts returned by the calls so far (SpecRepeat, history)

vars == <<pc, calls, logHandler, errlog, envelope, message, nlog, callLog, vocab,
          decode_fst, word_syms, decoder, dataDim, samp_offset, chunk_len, trace,
          words, i, result, decode_result, what, cerr, ret, pyErr, gil, tpc, files, texts>>

\* State of the specifications other than Spec, which Spec leaves alone.
Aux == <<gil, tpc, files, texts>>

Threads == 1..NumThreads

\* ----------------------------------------------------------------- strings
Ids == 1..NumIds

RECURSIVE SeqsUpTo(_, _)
SeqsUpTo(S, n) ==
    IF n = 0 THEN {<<>>}
    ELSE LET shorter == SeqsUpTo(S, n - 1)
         IN shorter \cup {Append(s, x) : s \in {t \in shorter : Len(t) = n - 1}, x \in S}

\* Display strings a words.txt may give an id.  "\xFF" stands for a byte that
\* is no valid UTF-8; SPACE is the ' ' appended after each word.
SPACE == " "
BadByte == "\\xFF"
NUL == "\\0"

Name(id) ==
    CASE id = 1 -> <<"f", "o", "o">>
      [] id = 2 -> <<"b", "a", "r">>
      [] id = 3 -> <<BadByte>>
      [] OTHER  -> <<"b", "a", "z">>

\* The tables a words.txt may hold: dense, ids 1..k for some k.
Vocabularies == {[id \in Ids |-> IF id <= k THEN Name(id) ELSE <<>>] : k \in 0..NumIds}

Digits == <<"1", "2", "3", "4", "5", "6", "7", "8", "9">>

\* std::string::c_str() read as a C string: the bytes before the first NUL.
RECURSIVE c_str(_)
c_str(s) ==
    IF s = <<>> \/ Head(s) = NUL THEN <<>>
    ELSE <<Head(s)>> \o c_str(Tail(s))

\* PyUnicode_FromString / PyErr_SetString decode their argument as UTF-8.
ValidUTF8(s) == \A k \in 1..Len(s) : s[k] # BadByte

\* ------------------------------------------------------------- Python side
NoErr == [type |-> "none", msg |-> <<>>]
NULL == [null |-> TRUE, text |-> <<>>]
PyStr(s) == [null |-> FALSE, text |-> s]

\* PyErr_SetString(type, s): the message is the C string s decoded as UTF-8.
PyErr_SetString(type, s) ==
    IF ValidUTF8(c_str(s)) THEN [type |-> type, msg |-> c_str(s)]
    ELSE [type |-> "UnicodeDecodeError", msg |-> <<"u", "t", "f", "8">>]

\* -------------------------------------------------------------- log handler
Retained == {"kError", "kAssertFailed"}

\* Texts of the messages the engine itself reports.
EngineTexts == {<<"e", "r", "r">>}

\* trap with the severity test left out: every message is retained.
trap_any_severity(severity, msg, log) == log \o msg

\* void trap(envelope, message): errlog after the call, given errlog before
\* (message is a C string already).
trap(severity, msg, log) ==
    IF severity \in {"kError", "kAssertFailed"} THEN log \o msg ELSE log

\* The engine hands a message to the installed handler (SetLogHandler(trap));
\* with no handler installed the engine writes it to its own log.
HandleMessage(severity, msg) ==
    /\ errlog' = IF logHandler = "trap" THEN trap(severity, msg, errlog) ELSE errlog
    /\ envelope' = IF logHandler = "trap" THEN severity ELSE envelope
    /\ message' = IF logHandler = "trap" THEN msg ELSE message
    /\ nlog' = nlog + 1
    /\ callLog' = IF logHandler = "trap" /\ severity \in Retained
                  THEN callLog \o msg ELSE callLog

NoMessage == UNCHANGED <<errlog, envelope, message, nlog, callLog>>

\* An exception leaves basic(): its stack objects are destroyed, the objects
\* behind its raw pointers are not, and control reaches the catch clause.
Unwind(w) ==
    /\ pc' = "catch"
    /\ what' = w
    /\ decoder' = IF decoder = "live" THEN "destroyed" ELSE decoder

\* KALDI_ERR << msg: the message goes to the handler with severity kError and
\* an exception is thrown; its what() is empty or the message, by engine version.
KALDI_ERR(msg) ==
    /\ HandleMessage("kError", msg)
    /\ \E w \in {<<>>, msg} : Unwind(w)

\* -------------------------------------------------------------------- Init
InitFiles(f) ==
    /\ pc = "idle"
    /\ calls = 0
    /\ logHandler = "default"
    /\ errlog = <<>>
    /\ envelope = "kInfo"
    /\ message = <<>>
    /\ nlog = 0
    /\ callLog = <<>>
    /\ vocab = [id \in Ids |-> <<>>]
    /\ decode_fst = "null"
    /\ word_syms = "null"
    /\ decoder = "none"
    /\ dataDim = 0
    /\ samp_offset = 0
    /\ chunk_len = 0
    /\ trace = <<>>
    /\ words = <<>>
    /\ i = 0
    /\ result = <<>>
    /\ decode_result = <<>>
    /\ what = <<>>
    /\ cerr = <<>>
    /\ ret = NULL
    /\ pyErr = NoErr
    /\ gil = 0
    /\ tpc = [t \in Threads |-> "python"]
    /\ files = f
    /\ texts = {}

\* Spec reads its inputs call by call and makes no use of files.
Init == InitFiles([vocab |-> [id \in Ids |-> <<>>], dataDim |-> 0, words |-> <<>>])

\* ------------------------------------------------------------------ decode
\* The host calls decode(args); the previous call, if any, has returned and
\* the host has taken its result or its exception.
CallUpTo(n) ==
    /\ pc \in {"idle", "returned"}
    /\ calls < n
    /\ calls' = calls + 1
    /\ pc' = "parse"
    /\ nlog' = 0
    /\ callLog' = <<>>
    /\ vocab' = [id \in Ids |-> <<>>]
    /\ decode_fst' = "null"
    /\ word_syms' = "null"
    /\ decoder' = "none"
    /\ dataDim' = 0
    /\ samp_offset' = 0
    /\ chunk_len' = 0
    /\ trace' = <<>>
    /\ words' = <<>>
    /\ i' = 0
    /\ result' = <<>>
    /\ decode_result' = <<>>
    /\ what' = <<>>
    /\ cerr' = <<>>
    /\ ret' = NULL
    /\ pyErr' = NoErr
    /\ envelope' = "kInfo"
    /\ message' = <<>>
    /\ UNCHANGED <<logHandler, errlog>>
    /\ UNCHANGED Aux

Call == CallUpTo(MaxCalls)

Locals == <<vocab, decode_fst, word_syms, dataDim, samp_offset, chunk_len, trace,
            words, i, result, decode_result>>
Stderr == <<what, cerr>>

\* PyArg_ParseTuple(args, "ss", ...) fails: it sets TypeError, decode returns NULL.
ParseFail ==
    /\ pc = "parse"
    /\ pc' = "returned"
    /\ ret' = NULL
    /\ pyErr' = [type |-> "TypeError", msg |-> <<"a", "r", "g", "s">>]
    /\ NoMessage
    /\ UNCHANGED <<calls, logHandler, decoder>>
    /\ UNCHANGED Locals
    /\ UNCHANGED Aux
    /\ UNCHANGED Stderr

ParseOk ==
    /\ pc = "parse"
    /\ pc' = "SetLogHandler"
    /\ NoMessage
    /\ UNCHANGED <<calls, logHandler, decoder, ret, pyErr>>
    /\ UNCHANGED Locals
    /\ UNCHANGED Aux
    /\ UNCHANGED Stderr

\* The catch clause handing back what basic had built so far.
Catch_returns_partial ==
    /\ pc = "catch"
    /\ pc' = "returned"
    /\ cerr' = cerr \o c_str(what)
    /\ pyErr' = PyErr_SetString("RuntimeError", errlog)
    /\ ret' = PyStr(c_str(result))
    /\ NoMessage
    /\ UNCHANGED <<calls, logHandler, decoder, what>>
    /\ UNCHANGED Locals
    /\ UNCHANGED Aux

\* catch (const std::exception& e): std::cerr << e.what();
\* PyErr_SetString(PyExc_RuntimeError, errlog.c_str()); return NULL.
Catch ==
    /\ pc = "catch"
    /\ pc' = "returned"
    /\ cerr' = cerr \o c_str(what)
    /\ pyErr' = PyErr_SetString("RuntimeError", errlog)
    /\ ret' = NULL
    /\ NoMessage
    /\ UNCHANGED <<calls, logHandler, decoder, what>>
    /\ UNCHANGED Locals
    /\ UNCHANGED Aux

\* return PyUnicode_FromString(result.c_str()) after basic has returned.
ReturnText ==
    /\ pc = "PyUnicode_FromString"
    /\ pc' = "returned"
    /\ IF ValidUTF8(c_str(decode_result))
       THEN ret' = PyStr(c_str(decode_result)) /\ pyErr' = pyErr
       ELSE ret' = NULL /\ pyErr' = PyErr_SetString("UnicodeDecodeError", <<"u", "t", "f", "8">>)
    /\ NoMessage
    /\ UNCHANGED <<calls, logHandler, decoder>>
    /\ UNCHANGED Locals
    /\ UNCHANGED Stderr

Return ==
    /\ ReturnText
    /\ UNCHANGED Aux

\* ------------------------------------------------------------------- basic
\* What every step of basic leaves alone.
Host == <<calls, ret, pyErr, decode_result, cerr, Aux>>

\* SetLogHandler(trap), the first statement of basic.
SetLogHandler ==
    /\ pc = "SetLogHandler"
    /\ logHandler' = "trap"
    /\ pc' = "ReadAdapt"
    /\ NoMessage
    /\ UNCHANGED Host
    /\ UNCHANGED <<vocab, decode_fst, word_syms, decoder, dataDim, samp_offset,
                   trace, words, i, result, what>>
    /\ UNCHANGED chunk_len

\* The steps of basic that call into the engine, each of which may fail.
EngineSteps == {"ReadAdapt", "ReadModel", "ReadFst", "ReadSyms", "ReadWav",
                "Construct", "AcceptWaveform", "WaitUntil", "InputFinished",
                "AdvanceDecoding", "FinalizeDecoding", "GetLattice"}

InEngine == pc \in EngineSteps /\ (pc = "InputFinished" => samp_offset = dataDim)

BasicLocals == <<vocab, decode_fst, word_syms, dataDim, samp_offset, chunk_len,
                 trace, words, i, result>>

\* The engine reports a warning or an informational message and goes on.
EngineLog ==
    /\ InEngine
    /\ nlog < MaxLog
    /\ \E severity \in {"kWarning", "kInfo"}, msg \in EngineTexts :
          HandleMessage(severity, msg)
    /\ UNCHANGED <<pc, logHandler, decoder, what>>
    /\ UNCHANGED Host
    /\ UNCHANGED BasicLocals

\* The engine fails with KALDI_ERR.
EngineError ==
    /\ InEngine
    /\ \E msg \in EngineTexts : KALDI_ERR(msg)
    /\ UNCHANGED logHandler
    /\ UNCHANGED Host
    /\ UNCHANGED BasicLocals

\* A KALDI_ASSERT of the engine fails: the message goes to the handler with
\* severity kAssertFailed; the engine then unwinds with an exception or ends
\* the process, by engine version.
EngineAssert ==
    /\ InEngine
    /\ \E msg \in EngineTexts :
          /\ HandleMessage("kAssertFailed", msg)
          /\ \/ Unwind(<<>>)
             \/ pc' = "aborted" /\ UNCHANGED <<decoder, what>>
    /\ UNCHANGED logHandler
    /\ UNCHANGED Host
    /\ UNCHANGED BasicLocals

\* A std::exception that was never reported to the log (std::bad_alloc, ...).
EngineThrow ==
    /\ InEngine
    /\ Unwind(<<"s", "t", "d">>)
    /\ NoMessage
    /\ UNCHANGED logHandler
    /\ UNCHANGED Host
    /\ UNCHANGED BasicLocals

\* A step that succeeds and changes nothing the model keeps.
Step(from, to) ==
    /\ pc = from
    /\ pc' = to
    /\ NoMessage
    /\ UNCHANGED <<logHandler, what>>
    /\ UNCHANGED Host

\* The pipeline and the decoder constructed before the model is loaded.
ReadAdapt_constructs_pipeline ==
    /\ Step("ReadAdapt", "ReadModel")
    /\ decoder' = "live"
    /\ UNCHANGED BasicLocals

\* ReadKaldiObject of final.mat, global_cmvn.stats, final.dubm, final.ie.
ReadAdapt ==
    /\ Step("ReadAdapt", "ReadModel")
    /\ UNCHANGED decoder
    /\ UNCHANGED BasicLocals

\* trans_model.Read, am_nnet.Read and the test-mode settings; decodable_info.
ReadModel ==
    /\ Step("ReadModel", "ReadFst")
    /\ UNCHANGED decoder
    /\ UNCHANGED BasicLocals

\* decode_fst = ReadFstKaldiGeneric(fst_rxfilename).
ReadFst ==
    /\ Step("ReadFst", "ReadSyms")
    /\ decode_fst' = "live"
    /\ UNCHANGED <<vocab, word_syms, decoder, dataDim, samp_offset, trace, words,
                   i, result>>
    /\ UNCHANGED chunk_len

\* word_syms = fst::SymbolTable::ReadText(word_syms_rxfilename) returns a table.
ReadSymsOf(tables) ==
    /\ Step("ReadSyms", "ReadWav")
    /\ \E v \in tables : vocab' = v
    /\ word_syms' = "live"
    /\ UNCHANGED <<decode_fst, decoder, dataDim, samp_offset, trace, words, i, result>>
    /\ UNCHANGED chunk_len

ReadSyms == ReadSymsOf(Vocabularies)

\* ReadText returns NULL: KALDI_ERR << "Could not read symbol table from file ...".
ReadSymsFail ==
    /\ pc = "ReadSyms"
    /\ KALDI_ERR(<<"s", "y", "m", "s">>)
    /\ UNCHANGED logHandler
    /\ UNCHANGED Host
    /\ UNCHANGED BasicLocals

\* wav_reader, adaptation_state, wave_data = wav_reader.Value("foo"), data.
ReadWavOf(lengths) ==
    /\ Step("ReadWav", "Construct")
    /\ \E n \in lengths : dataDim' = n
    /\ UNCHANGED <<vocab, decode_fst, word_syms, decoder, samp_offset, trace, words,
                   i, result>>
    /\ UNCHANGED chunk_len

ReadWav == ReadWavOf(0..MaxSamples)

\* feature_pipeline, SetAdaptationState, decoder, decoding_timer;
\* samp_freq, chunk_length, samp_offset = 0.
ConstructOf(lengths) ==
    /\ Step("Construct", "while")
    /\ decoder' = "live"
    /\ \E c \in lengths : chunk_len' = c
    /\ samp_offset' = 0
    /\ UNCHANGED <<vocab, decode_fst, word_syms, dataDim, trace, words, i, result>>

\* The feed loop taking one sample at a time.
Construct_chunk_of_one == ConstructOf({1})

Construct == ConstructOf({chunk_length})

\* One engine call recorded in the trace: its sample count where it has one,
\* and samp_offset at the time of the call.
Ev(op, n) == [op |-> op, n |-> n, at |-> samp_offset]

\* The loop left after its first chunk.
While_exits_after_first_chunk ==
    /\ Step("while", IF samp_offset < dataDim /\ samp_offset = 0
                     THEN "AcceptWaveform" ELSE "FinalizeDecoding")
    /\ UNCHANGED decoder
    /\ UNCHANGED BasicLocals

\* while (samp_offset < data.Dim())
While ==
    /\ Step("while", IF samp_offset < dataDim THEN "AcceptWaveform" ELSE "FinalizeDecoding")
    /\ UNCHANGED decoder
    /\ UNCHANGED BasicLocals

\* The chunk taken at the full chunk length, whatever is left of the audio.
AcceptWaveform_full_chunk ==
    /\ Step("AcceptWaveform", "WaitUntil")
    /\ LET num_samp == chunk_len
       IN /\ trace' = Append(trace, Ev("AcceptWaveform", num_samp))
          /\ samp_offset' = samp_offset + num_samp
    /\ UNCHANGED <<vocab, decode_fst, word_syms, decoder, dataDim, words, i, result>>
    /\ UNCHANGED chunk_len

\* samp_remaining, num_samp, wave_part; feature_pipeline.AcceptWaveform;
\* samp_offset += num_samp.
AcceptWaveform ==
    /\ Step("AcceptWaveform", "WaitUntil")
    /\ LET samp_remaining == dataDim - samp_offset
           num_samp == IF chunk_len < samp_remaining THEN chunk_len
                       ELSE samp_remaining
       IN /\ trace' = Append(trace, Ev("AcceptWaveform", num_samp))
          /\ samp_offset' = samp_offset + num_samp
    /\ UNCHANGED <<vocab, decode_fst, word_syms, decoder, dataDim, words, i, result>>
    /\ UNCHANGED chunk_len

\* decoding_timer.WaitUntil(samp_offset / samp_freq).
WaitUntil ==
    /\ Step("WaitUntil", "InputFinished")
    /\ trace' = Append(trace, Ev("WaitUntil", samp_offset))
    /\ UNCHANGED <<vocab, decode_fst, word_syms, decoder, dataDim, samp_offset,
                   words, i, result>>
    /\ UNCHANGED chunk_len

\* End-of-input signalled after every chunk.
InputFinished_every_chunk ==
    /\ Step("InputFinished", "AdvanceDecoding")
    /\ trace' = Append(trace, Ev("InputFinished", 0))
    /\ UNCHANGED <<vocab, decode_fst, word_syms, decoder, dataDim, samp_offset,
                   words, i, result>>
    /\ UNCHANGED chunk_len

\* if (samp_offset == data.Dim()) feature_pipeline.InputFinished();
InputFinished ==
    /\ Step("InputFinished", "AdvanceDecoding")
    /\ trace' = IF samp_offset = dataDim
                THEN Append(trace, Ev("InputFinished", 0)) ELSE trace
    /\ UNCHANGED <<vocab, decode_fst, word_syms, decoder, dataDim, samp_offset,
                   words, i, result>>
    /\ UNCHANGED chunk_len

\* The search advanced only once all the audio is in.
AdvanceDecoding_at_end_only ==
    /\ Step("AdvanceDecoding", "while")
    /\ trace' = IF samp_offset = dataDim
                THEN Append(trace, Ev("AdvanceDecoding", 0)) ELSE trace
    /\ UNCHANGED <<vocab, decode_fst, word_syms, decoder, dataDim, samp_offset,
                   words, i, result>>
    /\ UNCHANGED chunk_len

\* decoder.AdvanceDecoding(), the last statement of the loop body.
AdvanceDecoding ==
    /\ Step("AdvanceDecoding", "while")
    /\ trace' = Append(trace, Ev("AdvanceDecoding", 0))
    /\ UNCHANGED <<vocab, decode_fst, word_syms, decoder, dataDim, samp_offset,
                   words, i, result>>
    /\ UNCHANGED chunk_len

\* decoder.FinalizeDecoding().
FinalizeDecoding ==
    /\ Step("FinalizeDecoding", "GetLattice")
    /\ trace' = Append(trace, Ev("FinalizeDecoding", 0))
    /\ UNCHANGED <<vocab, decode_fst, word_syms, decoder, dataDim, samp_offset,
                   words, i, result>>
    /\ UNCHANGED chunk_len

\* The best paths the search can yield.
BestPaths == SeqsUpTo(Ids, MaxWords)

\* decoder.GetLattice, CompactLatticeShortestPath, ConvertLattice,
\* GetLinearSymbolSequence(best_path_lat, &alignment, &words, &weight);
\* std::string result; i = 0.
GetLatticeOf(paths) ==
    /\ Step("GetLattice", "for")
    /\ trace' = Append(trace, Ev("GetLattice", 0))
    /\ \E w \in paths : words' = w
    /\ i' = 0
    /\ result' = <<>>
    /\ UNCHANGED <<vocab, decode_fst, word_syms, decoder, dataDim, samp_offset>>
    /\ UNCHANGED chunk_len

GetLattice == GetLatticeOf(BestPaths)

\* word_syms->Find(id): the display string, "" when the table has no such id.
Find(id) == vocab[id]

\* The text KALDI_ERR reports for a missing id.
NotInTable(id) == <<"W", "o", "r", "d", "-", "i", "d", SPACE, Digits[id]>>

\* The loop body without the separator.
AppendWord_no_space(res, s) == res \o s

\* result after one pass of the loop body for the display string s.
AppendWord(res, s) == res \o s \o <<SPACE>>

\* The extraction loop passing over an id the table does not have.
For_skips_missing ==
    /\ pc = "for"
    /\ IF i < Len(words)
       THEN LET s == Find(words[i + 1])
            IN /\ result' = IF s = <<>> THEN result ELSE AppendWord(result, s)
               /\ i' = i + 1
               /\ pc' = "for"
       ELSE /\ pc' = "delete"
            /\ UNCHANGED <<i, result>>
    /\ NoMessage
    /\ UNCHANGED <<logHandler, decoder, what>>
    /\ UNCHANGED Host
    /\ UNCHANGED <<vocab, decode_fst, word_syms, dataDim, samp_offset, trace, words>>
    /\ UNCHANGED chunk_len

\* for (i = 0; i < words.size(); i++) { s = word_syms->Find(words[i]);
\*   if (s == "") KALDI_ERR << ...; result += s + ' '; }
For ==
    /\ pc = "for"
    /\ IF i < Len(words)
       THEN LET s == Find(words[i + 1])
            IN IF s = <<>>
               THEN /\ KALDI_ERR(NotInTable(words[i + 1]))
                    /\ UNCHANGED <<i, result>>
               ELSE /\ result' = AppendWord(result, s)
                    /\ i' = i + 1
                    /\ pc' = "for"
                    /\ NoMessage
                    /\ UNCHANGED <<decoder, what>>
       ELSE /\ pc' = "delete"
            /\ NoMessage
            /\ UNCHANGED <<i, result, decoder, what>>
    /\ UNCHANGED logHandler
    /\ UNCHANGED Host
    /\ UNCHANGED <<vocab, decode_fst, word_syms, dataDim, samp_offset, trace, words>>
    /\ UNCHANGED chunk_len

\* basic handing back the text together with what errlog holds.
Delete_returns_errlog_too ==
    /\ pc = "delete"
    /\ pc' = "PyUnicode_FromString"
    /\ decode_fst' = "deleted"
    /\ word_syms' = "deleted"
    /\ decoder' = "destroyed"
    /\ decode_result' = errlog \o result
    /\ NoMessage
    /\ UNCHANGED <<calls, ret, pyErr, cerr, logHandler, what>>
    /\ UNCHANGED <<vocab, dataDim, samp_offset, trace, words, i, result>>
    /\ UNCHANGED Aux
    /\ UNCHANGED chunk_len

\* delete decode_fst; delete word_syms; return result;  and, in decode,
\* result = basic(w, d).
Delete ==
    /\ pc = "delete"
    /\ pc' = "PyUnicode_FromString"
    /\ decode_fst' = "deleted"
    /\ word_syms' = "deleted"
    /\ decoder' = "destroyed"
    /\ decode_result' = result
    /\ NoMessage
    /\ UNCHANGED <<calls, ret, pyErr, cerr, logHandler, what>>
    /\ UNCHANGED <<vocab, dataDim, samp_offset, trace, words, i, result>>
    /\ UNCHANGED Aux
    /\ UNCHANGED chunk_len

\* -------------------------------------------------------------------- Next
Next ==
    \/ Call
    \/ ParseFail
    \/ ParseOk
    \/ SetLogHandler
    \/ EngineLog
    \/ EngineError
    \/ EngineAssert
    \/ EngineThrow
    \/ ReadAdapt
    \/ ReadModel
    \/ ReadFst
    \/ ReadSyms
    \/ ReadSymsFail
    \/ ReadWav
    \/ Construct
    \/ While
    \/ AcceptWaveform
    \/ WaitUntil
    \/ InputFinished
    \/ AdvanceDecoding
    \/ FinalizeDecoding
    \/ GetLattice
    \/ For
    \/ Delete
    \/ Return
    \/ Catch

Spec == Init /\ [][Next]_vars

\* ---------------------------------------------------------------- properties
Failed == pc = "returned" /\ pyErr.type = "RuntimeError"

Ops == {trace[k].op : k \in 1..Len(trace)}

Count(op) == Cardinality({k \in 1..Len(trace) : trace[k].op = op})

Before(op1, op2) ==
    \A k \in 1..Len(trace) : trace[k].op = op2 =>
        \E j \in 1..(k - 1) : trace[j].op = op1

\* The extraction loop was entered: the best path was read off the lattice.
Extracting == "GetLattice" \in Ops

MissingOnPath == \E k \in 1..Len(words) : Find(words[k]) = <<>>

\* The display strings of the ids of w in path order, each followed by a space.
RECURSIVE Text(_)
Text(w) ==
    IF w = <<>> THEN <<>>
    ELSE vocab[Head(w)] \o <<SPACE>> \o Text(Tail(w))

IsSuffix(s, t) ==
    Len(s) <= Len(t) /\ SubSeq(t, Len(t) - Len(s) + 1, Len(t)) = s

\* C1: a decode call that has returned has returned either a text with no
\* error raised, or NULL with an error raised: never a text together with an
\* error, never NULL without one; a call that failed after words were appended
\* to result returns none of them.
C1_TextOrError ==
    pc = "returned" =>
        \/ ~ret.null /\ pyErr = NoErr
        \/ ret = NULL /\ pyErr.type # "none"

\* A call fails on the second id of the path, after the first word was appended.
C1_Witness ==
    /\ Failed
    /\ result # <<>>
    /\ ret = NULL

\* C2: the message of the error raised by a failing call holds only what the
\* sink captured during that call; nothing captured by an earlier call is in it.
C2_NoLeakAcrossCalls ==
    Failed => pyErr.msg = callLog

\* C3: a call that fails after the engine reported an error or an assertion
\* failure raises an error carrying the non-empty content captured during the
\* call, and once it has returned the buffer is empty.
C3_DrainRoundTrip ==
    (Failed /\ callLog # <<>>) =>
        /\ pyErr.msg # <<>>
        /\ IsSuffix(callLog, pyErr.msg)
        /\ errlog = <<>>

\* C4: with zero samples the loop body never runs, and end-of-input is still
\* signalled exactly once before the search is finalized.
C4_ZeroLengthFlush ==
    (dataDim = 0 /\ "FinalizeDecoding" \in Ops) =>
        /\ "AcceptWaveform" \notin Ops
        /\ Count("InputFinished") = 1
        /\ Before("InputFinished", "FinalizeDecoding")

\* C5: a call that fails with nothing captured by the sink during it raises an
\* error whose message is a non-empty placeholder, never the empty message.
C5_PlaceholderWhenEmpty ==
    (Failed /\ callLog = <<>>) => pyErr.msg # <<>>

\* C6: trap is the installed handler throughout the engine work of a call, and
\* whenever no call is in flight it is not the installed handler.
C6_SinkCallScoped ==
    /\ (pc \in EngineSteps \cup {"for", "delete"}) => logHandler = "trap"
    /\ (pc \in {"idle", "returned"}) => logHandler # "trap"

\* C7: when a call has returned, the search graph, the symbol table and the
\* decoder session it acquired have been released.
C7_ReleasedOnEveryExit ==
    pc = "returned" =>
        /\ decode_fst # "live"
        /\ word_syms # "live"
        /\ decoder # "live"

\* C8: if an id of the best path is not in the symbol table, the call fails
\* with the error and returns no text; the loop never moves past such an id
\* and never returns from basic with one on the path.
C8_MissingIdIsFatal ==
    /\ (Extracting /\ pc = "returned" /\ MissingOnPath) => (ret = NULL /\ Failed)
    /\ Extracting => \A k \in 1..i : Find(words[k]) # <<>>
    /\ (pc \in {"delete", "PyUnicode_FromString"}) => ~MissingOnPath

\* The miss is on the second id: the first word was looked up and appended.
C8_Witness ==
    /\ pc = "returned"
    /\ Extracting
    /\ MissingOnPath
    /\ i = 1
    /\ result # <<>>

\* C9: when every id of the best path is in the symbol table, the text basic
\* returns, and the text decode returns, is the display strings of the ids in
\* path order, each followed by one space.
C9_TextOfPath ==
    /\ (pc \in {"delete", "PyUnicode_FromString"}) => result = Text(words)
    /\ pc = "PyUnicode_FromString" => decode_result = Text(words)
    /\ (pc = "returned" /\ ~ret.null) => ret.text = Text(words)
    /\ (pc = "returned" /\ Extracting /\ ~MissingOnPath /\ ValidUTF8(Text(words)))
           => ret = PyStr(Text(words))

\* The path of "foo", "bar" is returned as "foo bar ".
C9_Witness ==
    /\ pc = "returned"
    /\ words = <<1, 2>>
    /\ ret = PyStr(<<"f", "o", "o", SPACE, "b", "a", "r", SPACE>>)

\* C10: a message handed to trap is appended to the end of errlog if its
\* severity is kError or kAssertFailed, and leaves errlog as it was otherwise.
C10_RetainsErrorsOnly ==
    [][nlog' = nlog + 1 =>
          errlog' = IF envelope' \in {"kError", "kAssertFailed"}
                    THEN errlog \o message' ELSE errlog]_vars

\* A warning is observed while the buffer holds an earlier call's error.
C10_Witness ==
    /\ nlog > 0
    /\ envelope = "kWarning"
    /\ errlog # <<>>
    /\ callLog = <<>>

\* C11: a failing call hands its error text to the host only through the error
\* it raises; nothing is written to std::cerr.
C11_NoRawStderr ==
    pc = "returned" => cerr = <<>>

\* ------------------------------------------------------------ host threads
\* SpecThreads: several host threads call decode.  The interpreter calls an
\* extension function in the thread that holds its lock, and hands the lock to
\* another thread only when the holder runs interpreter code or gives it up;
\* decode and basic never give it up.  Each thread's call is followed through
\* the steps that touch the process-wide state: the handler and errlog.
OneThread == <<pc, vocab, decode_fst, word_syms, decoder, dataDim, samp_offset,
               chunk_len, trace, words, i, result, decode_result, what, cerr, ret, pyErr,
               files, texts>>

\* The text of the errors the engine reports in thread t.
ThreadText(t) == <<"e", "r", "r", Digits[t]>>

\* The interpreter gives the lock up while thread t runs interpreter code.
GilRelease(t) ==
    /\ gil = t
    /\ tpc[t] = "python"
    /\ gil' = 0
    /\ NoMessage
    /\ UNCHANGED <<tpc, calls, logHandler>>
    /\ UNCHANGED OneThread

\* Thread t, running interpreter code, takes the free lock.
GilAcquire(t) ==
    /\ gil = 0
    /\ tpc[t] = "python"
    /\ gil' = t
    /\ NoMessage
    /\ UNCHANGED <<tpc, calls, logHandler>>
    /\ UNCHANGED OneThread

\* The interpreter, holding the lock in thread t, calls decode(self, args).
ThreadCall(t) ==
    /\ gil = t
    /\ tpc[t] = "python"
    /\ calls < MaxCalls
    /\ calls' = calls + 1
    /\ tpc' = [tpc EXCEPT ![t] = "parse"]
    /\ nlog' = 0
    /\ callLog' = <<>>
    /\ envelope' = "kInfo"
    /\ message' = <<>>
    /\ UNCHANGED <<gil, errlog, logHandler>>
    /\ UNCHANGED OneThread

\* PyArg_ParseTuple fails: return NULL.
ThreadParseFail(t) ==
    /\ tpc[t] = "parse"
    /\ tpc' = [tpc EXCEPT ![t] = "python"]
    /\ NoMessage
    /\ UNCHANGED <<gil, calls, logHandler>>
    /\ UNCHANGED OneThread

\* decode with the lock given up around basic (Py_BEGIN_ALLOW_THREADS).
ThreadParseOk_allows_threads(t) ==
    /\ tpc[t] = "parse"
    /\ tpc' = [tpc EXCEPT ![t] = "SetLogHandler"]
    /\ gil' = 0
    /\ NoMessage
    /\ UNCHANGED <<calls, logHandler>>
    /\ UNCHANGED OneThread

\* PyArg_ParseTuple succeeds; w, d, result; try { basic(w, d) is entered.
ThreadParseOk(t) ==
    /\ tpc[t] = "parse"
    /\ tpc' = [tpc EXCEPT ![t] = "SetLogHandler"]
    /\ NoMessage
    /\ UNCHANGED <<gil, calls, logHandler>>
    /\ UNCHANGED OneThread

\* SetLogHandler(trap) in thread t.
ThreadSetLogHandler(t) ==
    /\ tpc[t] = "SetLogHandler"
    /\ tpc' = [tpc EXCEPT ![t] = "engine"]
    /\ logHandler' = "trap"
    /\ NoMessage
    /\ UNCHANGED <<gil, calls>>
    /\ UNCHANGED OneThread

\* The engine, working for thread t, reports a warning or a note.
ThreadEngineLog(t) ==
    /\ tpc[t] = "engine"
    /\ nlog < MaxLog
    /\ \E severity \in {"kWarning", "kInfo"} : HandleMessage(severity, ThreadText(t))
    /\ UNCHANGED <<gil, tpc, calls, logHandler>>
    /\ UNCHANGED OneThread

\* The engine, working for thread t, fails: the message goes to trap and the
\* exception reaches the catch clause.
ThreadEngineError(t) ==
    /\ tpc[t] = "engine"
    /\ \E severity \in {"kError", "kAssertFailed"} : HandleMessage(severity, ThreadText(t))
    /\ tpc' = [tpc EXCEPT ![t] = "catch"]
    /\ UNCHANGED <<gil, calls, logHandler>>
    /\ UNCHANGED OneThread

\* basic returns and decode returns the text, or the catch clause returns NULL:
\* thread t is back in interpreter code.
ThreadReturn(t) ==
    /\ tpc[t] \in {"engine", "catch"}
    /\ tpc' = [tpc EXCEPT ![t] = "python"]
    /\ NoMessage
    /\ UNCHANGED <<gil, calls, logHandler>>
    /\ UNCHANGED OneThread

NextThreads ==
    \/ \E t \in Threads : GilRelease(t)
    \/ \E t \in Threads : GilAcquire(t)
    \/ \E t \in Threads : ThreadCall(t)
    \/ \E t \in Threads : ThreadParseFail(t)
    \/ \E t \in Threads : ThreadParseOk(t)
    \/ \E t \in Threads : ThreadSetLogHandler(t)
    \/ \E t \in Threads : ThreadEngineLog(t)
    \/ \E t \in Threads : ThreadEngineError(t)
    \/ \E t \in Threads : ThreadReturn(t)

SpecThreads == Init /\ [][NextThreads]_vars

InDecode(t) == tpc[t] # "python"

\* C12: at most one host thread is inside decode at a time: a thread inside it
\* holds the interpreter lock from entry to return, so no other thread enters,
\* and what trap retained since the call was entered is that call's alone.
C12_OneCallInFlight ==
    /\ \A t, u \in Threads : (InDecode(t) /\ InDecode(u)) => t = u
    /\ \A t \in Threads : InDecode(t) => gil = t
    /\ \A t \in Threads : InDecode(t) => callLog \in {<<>>, ThreadText(t)}

\* A thread is in the engine, holding the lock, after another thread's call
\* failed and left its message in errlog.
C12_Witness ==
    \E t, u \in Threads :
        /\ t # u
        /\ tpc[t] = "engine"
        /\ tpc[u] = "python"
        /\ errlog = ThreadText(u)

\* ----------------------------------------------------------- repeated calls
\* SpecRepeat: the host calls decode again and again on one unchanged model
\* directory and wave file.  What the files hold, and the best path the engine
\* finds in them, is fixed at the start; a call may still fail in the engine.
\* The engine's warnings and notes, which trap discards, are left out.
FilesOnDisk == [vocab : Vocabularies, dataDim : 0..MaxSamples, words : BestPaths]

InitRepeat == \E f \in FilesOnDisk : InitFiles(f)

\* Three calls: a success, a failure and a success fit.
CallRepeat == CallUpTo(3)

ReadSymsRepeat == ReadSymsOf({files.vocab})

ReadWavRepeat == ReadWavOf({files.dataDim})

GetLatticeRepeat == GetLatticeOf({files.words})

\* Return, with the text that was returned added to the history.
ReturnRepeat ==
    /\ ReturnText
    /\ texts' = IF ret'.null THEN texts ELSE texts \cup {ret'.text}
    /\ UNCHANGED <<gil, tpc, files>>

NextRepeat ==
    \/ CallRepeat
    \/ ParseFail
    \/ ParseOk
    \/ SetLogHandler
    \/ EngineError
    \/ EngineAssert
    \/ EngineThrow
    \/ ReadAdapt
    \/ ReadModel
    \/ ReadFst
    \/ ReadSymsRepeat
    \/ ReadSymsFail
    \/ ReadWavRepeat
    \/ Construct
    \/ While
    \/ AcceptWaveform
    \/ WaitUntil
    \/ InputFinished
    \/ AdvanceDecoding
    \/ FinalizeDecoding
    \/ GetLatticeRepeat
    \/ For
    \/ Delete
    \/ ReturnRepeat
    \/ Catch

SpecRepeat == InitRepeat /\ [][NextRepeat]_vars

\* C13: the successful calls on one unchanged model directory and wave file
\* all return the same text, whatever earlier calls, failed ones among them,
\* left in errlog and in the installed handler.
C13_SameTextEveryCall ==
    Cardinality(texts) <= 1

\* A second successful call returns after a failed call left errlog non-empty
\* behind the first successful one.
C13_Witness ==
    /\ pc = "returned"
    /\ calls = 3
    /\ ~ret.null
    /\ ret.text # <<>>
    /\ texts = {ret.text}
    /\ errlog # <<>>

\* ------------------------------------------------------- the chunk length
\* The feed loop of basic() with chunk_length as a parameter: every length
\* from one sample up to the audio's, and the int32 maximum basic() assigns.
MaxAudio == 3      \* samples in the wave file, where the chunk length varies

ChunkLengths == (1..MaxAudio) \cup {chunk_length}

CallChunk == CallUpTo(1)

ReadWavChunk == ReadWavOf(0..MaxAudio)

ConstructChunk == ConstructOf(ChunkLengths)

NextChunk ==
    \/ CallChunk
    \/ ParseFail
    \/ ParseOk
    \/ SetLogHandler
    \/ EngineLog
    \/ EngineError
    \/ EngineAssert
    \/ EngineThrow
    \/ ReadAdapt
    \/ ReadModel
    \/ ReadFst
    \/ ReadSyms
    \/ ReadSymsFail
    \/ ReadWavChunk
    \/ ConstructChunk
    \/ While
    \/ AcceptWaveform
    \/ WaitUntil
    \/ InputFinished
    \/ AdvanceDecoding
    \/ FinalizeDecoding
    \/ GetLattice
    \/ For
    \/ Delete
    \/ Return
    \/ Catch

SpecChunk == Init /\ [][NextChunk]_vars

\* basic() runs on one thread and every engine call returns or throws.
SpecChunkFair == SpecChunk /\ WF_vars(NextChunk)

\* Positions of the calls of op in the trace.
Idx(op) == {k \in 1..Len(trace) : trace[k].op = op}

\* The loop was left by its condition: FinalizeDecoding is the next call, or
\* was made.
AfterLoop == pc = "FinalizeDecoding" \/ "FinalizeDecoding" \in Ops

IsChunk(e) == e.op = "AcceptWaveform"

\* The chunks submitted so far, in order.
Chunks == SelectSeq(trace, IsChunk)

IsFeed(e) == e.op \in {"AcceptWaveform", "AdvanceDecoding"}

\* The submissions and the search advances so far, in order.
Feed == SelectSeq(trace, IsFeed)

\* C14: end-of-input is signalled at most once in a call, and exactly once by
\* the time the loop over a non-empty audio is left; it is signalled with no
\* sample left unsubmitted, after the chunk that ends the audio, with no chunk
\* after it, and the last search advance comes after it.
C14_EndOfInputOnce ==
    /\ Cardinality(Idx("InputFinished")) <= 1
    /\ \A k \in Idx("InputFinished") :
          /\ trace[k].at = dataDim
          /\ \E j \in 1..(k - 1) :
                /\ trace[j].op = "AcceptWaveform"
                /\ trace[j].at + trace[j].n = dataDim
          /\ \A j \in (k + 1)..Len(trace) : trace[j].op # "AcceptWaveform"
          /\ Cardinality({j \in Idx("AdvanceDecoding") : j > k}) <= 1
    /\ (dataDim > 0 /\ AfterLoop) =>
          \E k \in Idx("InputFinished") :
             /\ Idx("AdvanceDecoding") # {}
             /\ \E j \in Idx("AdvanceDecoding") :
                   j > k /\ \A m \in Idx("AdvanceDecoding") : m <= j

\* An audio of several chunks was fed and the loop was left.
C14_Witness ==
    /\ AfterLoop
    /\ Len(Chunks) >= 2
    /\ Cardinality(Idx("InputFinished")) = 1

\* C15: the search is finalized at most once, and exactly once in a call that
\* returns a text; it is finalized only with every sample submitted; after it
\* no chunk is submitted, end-of-input is not signalled and the search is not
\* advanced; the lattice is requested only after it.
C15_FinalizationTerminal ==
    /\ Cardinality(Idx("FinalizeDecoding")) <= 1
    /\ \A k \in Idx("FinalizeDecoding") :
          /\ trace[k].at = dataDim
          /\ \A s \in 0..(dataDim - 1) :
                \E j \in 1..(k - 1) :
                   /\ trace[j].op = "AcceptWaveform"
                   /\ trace[j].at <= s
                   /\ s < trace[j].at + trace[j].n
          /\ \A j \in (k + 1)..Len(trace) :
                trace[j].op \notin {"AcceptWaveform", "WaitUntil", "InputFinished",
                                    "AdvanceDecoding"}
    /\ Before("FinalizeDecoding", "GetLattice")
    /\ (pc = "returned" /\ ~ret.null) => Cardinality(Idx("FinalizeDecoding")) = 1

\* A call that fed several chunks has returned a text.
C15_Witness ==
    /\ pc = "returned"
    /\ ~ret.null
    /\ Len(Chunks) >= 2
    /\ "GetLattice" \in Ops

\* Samples 0..N-1 against the chunks: each sample before samp_offset lies in
\* exactly one chunk, each sample from samp_offset on in none.
CoveredOnce ==
    \A s \in 0..(dataDim - 1) :
       Cardinality({k \in 1..Len(Chunks) :
                       Chunks[k].at <= s /\ s < Chunks[k].at + Chunks[k].n})
          = IF s < samp_offset THEN 1 ELSE 0

ChunkLoopInv ==
    /\ 0 <= samp_offset
    /\ samp_offset <= dataDim
    /\ \A k \in 1..Len(Chunks) :
          /\ Chunks[k].n >= 1
          /\ Chunks[k].at = IF k = 1 THEN 0 ELSE Chunks[k - 1].at + Chunks[k - 1].n
          /\ Chunks[k].at + Chunks[k].n <= dataDim
    /\ CoveredOnce
    /\ Len(Chunks) <= dataDim
    /\ AfterLoop => samp_offset = dataDim

\* C16: throughout a call 0 <= samp_offset <= N; every chunk is non-empty,
\* starts at 0 or where the chunk before it ended, and ends within the audio;
\* the chunks cover each sample before samp_offset once and no other sample;
\* there are at most N of them; the loop is left with samp_offset = N; and a
\* call at the loop's condition leaves the loop, for FinalizeDecoding or by an
\* exception of the engine.
C16_ChunkLoop ==
    /\ []ChunkLoopInv
    /\ (pc = "while") ~> (pc \in {"FinalizeDecoding", "catch", "aborted"})

\* The loop was left after a last chunk shorter than the chunk length.
C16_Witness ==
    /\ AfterLoop
    /\ Len(Chunks) >= 2
    /\ Chunks[Len(Chunks)].n < chunk_len
    /\ samp_offset = dataDim

\* C17: submissions and search advances alternate, a submission first; the
\* advances are as many as the chunks, or one fewer inside the loop body, and
\* as many once the loop is left.
C17_OneAdvancePerChunk ==
    /\ \A k \in 1..Len(Feed) :
          Feed[k].op = IF k % 2 = 1 THEN "AcceptWaveform" ELSE "AdvanceDecoding"
    /\ AfterLoop => Cardinality(Idx("AdvanceDecoding")) = Len(Chunks)
    /\ pc = "while" => Cardinality(Idx("AdvanceDecoding")) = Len(Chunks)

\* Three chunks were submitted and the search advanced after each.
C17_Witness ==
    /\ AfterLoop
    /\ Len(Chunks) = 3
    /\ Cardinality(Idx("AdvanceDecoding")) = 3

\* ------------------------------------------------------------ load failures
\* The steps of basic() that read the model directory and the wave file.
LoadSteps == {"ReadAdapt", "ReadModel", "ReadFst", "ReadSyms", "ReadWav"}

\* C18: while basic() loads, no pipeline or decoder exists and no engine call
\* of the feed loop or after it has been made; a load step that does not go on
\* loading either completes the loading (the wave file, last) or fails at once,
\* leaving for the catch clause (or ending the process) with nothing
\* constructed; the catch clause then returns NULL with an error set, still
\* with nothing constructed, submitted, advanced, finalized or extracted.
C18_NoPartialPipeline ==
    /\ [](pc \in LoadSteps => decoder = "none")
    /\ [](decoder = "none" => trace = <<>>)
    /\ [][(pc \in LoadSteps /\ pc' \notin LoadSteps) =>
            \/ pc = "ReadWav" /\ pc' = "Construct"
            \/ /\ pc' \in {"catch", "aborted"}
               /\ decoder' = "none"
               /\ trace' = <<>>]_vars
    /\ [][(pc = "catch" /\ decoder = "none") =>
            /\ pc' = "returned"
            /\ ret' = NULL
            /\ pyErr'.type # "none"
            /\ decoder' = "none"
            /\ trace' = <<>>]_vars

\* The symbol table could not be read, after the search graph was: the call
\* has failed with nothing constructed.
C18_Witness ==
    /\ Failed
    /\ decode_fst = "live"
    /\ word_syms = "null"
    /\ decoder = "none"
    /\ trace = <<>>

\* ------------------------------------------------------------ single chunk
\* The engine calls of a feed loop that takes all N samples as one chunk.
SingleChunk ==
    << [op |-> "AcceptWaveform", n |-> dataDim, at |-> 0],
       [op |-> "WaitUntil", n |-> dataDim, at |-> dataDim],
       [op |-> "InputFinished", n |-> 0, at |-> dataDim],
       [op |-> "AdvanceDecoding", n |-> 0, at |-> dataDim],
       [op |-> "FinalizeDecoding", n |-> 0, at |-> dataDim] >>

\* C19: in a call on a non-empty audio the engine calls made are, in order,
\* AcceptWaveform with all N samples, WaitUntil for sample N, InputFinished,
\* AdvanceDecoding and then FinalizeDecoding; the loop's condition is
\* evaluated before the first of them and after the fourth, and the loop is
\* left with the four made.
C19_SingleChunkFeed ==
    dataDim > 0 =>
       /\ \A k \in 1..Len(trace) : k <= 5 => trace[k] = SingleChunk[k]
       /\ pc = "while" => Len(trace) \in {0, 4}
       /\ AfterLoop => Len(trace) >= 4

\* A call on an audio of two samples has returned a text.
C19_Witness ==
    /\ pc = "returned"
    /\ ~ret.null
    /\ dataDim = 2
    /\ Len(Chunks) = 1
    /\ "FinalizeDecoding" \in Ops

====
